---- MODULE Spec2Model ----
(***************************************************************************)
(* MAX47x6-RK: driver for the MCP47x6 family of I2C DACs (MAX4706 8 bit,   *)
(* MAX4716 10 bit, MAX4726 12 bit), src/src/MAX47x6-RK.cpp.                *)
(*                                                                         *)
(* The driver is built for Particle devices (Particle.h): arm-none-eabi    *)
(* gcc, little-endian, bit-fields allocated from the least significant     *)
(* bit, plain int bit-fields signed, unsigned long 32 bits wide.  The      *)
(* model uses that layout wherever the code reads bytes through a struct.  *)
(*                                                                         *)
(* The I2C transport (TwoWire) and the millisecond clock (millis) are      *)
(* external: the bytes a read delivers, the completion status of a write   *)
(* and the time a transaction takes are nondeterministic choices.          *)
(***************************************************************************)
EXTENDS Integers, Sequences, FiniteSets, TLC

VARIABLES
    model,      \* Model given to the constructor
    addr,       \* member addr: the address used for every transaction
    now,        \* millis(): 32-bit millisecond clock, [hi, lo] 16-bit halves
    op,         \* public method in progress ("none" when idle)
    pc,         \* position inside that method
    args,       \* parameters vref, gain, value, saveToEeprom of the call
    buf,        \* updateSettings: uint8_t buf[3]
    stat,       \* writeDevice: result of wire.endTransmission (-1: none yet)
    entry,      \* millis() when updateSettings was entered
    start,      \* updateSettings: unsigned long start
    elapsed,    \* milliseconds that really passed since start was taken
    ready,      \* result of the last isReady() call
    raw,        \* bytes delivered to the last readStatus() kept by its caller
    status,     \* MAX47x6Status returned by that readStatus()
    ret,        \* return value of the method, valid when pc = "done"
    bus         \* I2C transactions issued by the current call, in order

vars == <<model, addr, now, op, pc, args, buf, stat, entry, start, elapsed,
          ready, raw, status, ret, bus>>

----------------------------------------------------------------------------
(* Bounds of the model *)

\* reads that may complete within the same millisecond, per call
MaxZeroTickPolls == 1
\* the encoder is explored for value < ValueSpan * 2^width
ValueSpan == 2

----------------------------------------------------------------------------
(* Integer helpers: C++ unsigned arithmetic on 8, 16 and 32 bits *)

RECURSIVE Pow2(_)
Pow2(n) == IF n = 0 THEN 1 ELSE 2 * Pow2(n - 1)

U8(x) == x % 256

Shl(x, n) == x * Pow2(n)

Shr(x, n) == x \div Pow2(n)

\* n bits of b starting at bit lo, as an unsigned number
Bits(b, lo, n) == (b \div Pow2(lo)) % Pow2(n)

\* an n-bit field read as a signed (two's complement) number
SignExtend(v, n) == IF v >= Pow2(n - 1) THEN v - Pow2(n) ELSE v

RECURSIVE OrBits(_, _, _)
OrBits(a, b, n) ==
    IF n = 0 THEN 0
    ELSE (IF a % 2 = 1 \/ b % 2 = 1 THEN 1 ELSE 0)
         + 2 * OrBits(a \div 2, b \div 2, n - 1)

\* a | b on bytes
BitOr(a, b) == OrBits(a, b, 8)

W16 == 256 * 256

\* unsigned long arithmetic modulo 2^32 on [hi, lo] halves
Add32(c, d) ==
    [lo |-> (c.lo + d) % W16,
     hi |-> (c.hi + ((c.lo + d) \div W16)) % W16]

Sub32(a, b) ==
    LET borrow == IF a.lo < b.lo THEN 1 ELSE 0
    IN  [lo |-> (a.lo - b.lo) % W16,
         hi |-> (a.hi - b.hi - borrow) % W16]

\* x < k for a 32-bit x and a constant k below 2^16
Less32(x, k) == x.hi = 0 /\ x.lo < k

----------------------------------------------------------------------------
(* Constants of class MAX47x6 *)

GAIN_1X == 0
GAIN_2X == 1
CMD_WRITE_VOLATILE_REG == 0
CMD_WRITE_VOLATILE_MEMORY == 2
CMD_WRITE_ALL_MEMORY == 3
MAX_EEPROM_WAIT_MS == 100

Models == {"MAX4706", "MAX4716", "MAX4726"}

\* resolution of each model in bits
Width(m) == CASE m = "MAX4706" -> 8 [] m = "MAX4716" -> 10 [] m = "MAX4726" -> 12

----------------------------------------------------------------------------
(* MAX47x6ConfigurationStatus: one byte read through int bit-fields.       *)
(* Fields are allocated from bit 0 upwards in declaration order (ready,    *)
(* por, filler, vref:2, powerdown:2, gain) and are signed.                 *)

CfgReady(c) == SignExtend(Bits(c, 0, 1), 1)
CfgPor(c) == SignExtend(Bits(c, 1, 1), 1)
CfgVref(c) == SignExtend(Bits(c, 3, 2), 2)
CfgPowerdown(c) == SignExtend(Bits(c, 5, 2), 2)
CfgGain(c) == SignExtend(Bits(c, 7, 1), 1)

MAX47x6ConfigurationStatus(c) ==
    [ready |-> CfgReady(c), por |-> CfgPor(c), vref |-> CfgVref(c),
     powerdown |-> CfgPowerdown(c), gain |-> CfgGain(c)]

----------------------------------------------------------------------------
(* updateSettings, lines 49-86: the frame handed to writeDevice *)

\* lines 52-57: buf[0] |= CMD << 5
CommandBits(b0, saveToEeprom) ==
    IF saveToEeprom
    THEN BitOr(b0, U8(Shl(CMD_WRITE_ALL_MEMORY, 5)))
    ELSE BitOr(b0, U8(Shl(CMD_WRITE_VOLATILE_MEMORY, 5)))

\* line 59: buf[0]= vref << 3, an assignment: the previous buf[0] is lost
VrefBits(b0, vref) == U8(Shl(vref, 3))

\* mutant: the test is gain == GAIN_2X
GainBitsOnlyOne(b0, gain) == IF gain = GAIN_2X THEN BitOr(b0, GAIN_2X) ELSE b0

\* lines 61-63: if (gain) buf[0] |= GAIN_2X
GainBits(b0, gain) == IF gain # 0 THEN BitOr(b0, GAIN_2X) ELSE b0

\* mutant: the MAX4716 case shifts like the MAX4726 case
ValueBytesSameShift(m, value) ==
    CASE m = "MAX4706" -> <<U8(value), 0>>
      [] m = "MAX4716" -> <<U8(Shr(value, 4)), U8(Shl(value, 4))>>
      [] m = "MAX4726" -> <<U8(Shr(value, 4)), U8(Shl(value, 4))>>

\* mutant: a value above the model's range is clamped, not truncated
ValueBytesSaturating(m, value) ==
    CASE m = "MAX4706" -> <<IF value > 255 THEN 255 ELSE value, 0>>
      [] m = "MAX4716" ->
            <<IF value > 1023 THEN 255 ELSE U8(Shr(value, 2)), U8(Shl(value, 6))>>
      [] m = "MAX4726" ->
            <<IF value > 4095 THEN 255 ELSE U8(Shr(value, 4)), U8(Shl(value, 4))>>

\* lines 65-86: buf[1], buf[2] by model; buf[2] stays 0 for the MAX4706
ValueBytes(m, value) ==
    CASE m = "MAX4706" -> <<U8(value), 0>>
      [] m = "MAX4716" -> <<U8(Shr(value, 2)), U8(Shl(value, 6))>>
      [] m = "MAX4726" -> <<U8(Shr(value, 4)), U8(Shl(value, 4))>>

Frame(m, vref, gain, value, saveToEeprom) ==
    LET b0 == GainBits(VrefBits(CommandBits(0, saveToEeprom), vref), gain)
        vb == ValueBytes(m, value)
    IN  <<b0, vb[1], vb[2]>>

\* mutant: the length is that of the command byte and one value byte
BufLenTwo == 3 - 1

\* line 88: sizeof(buf)
BufLen == 3

\* mutant: only an address NACK counts as a failure
WriteDeviceResultDataNackOk(s) == s # 2

\* mutant: return (stat != 0)
WriteDeviceResultInverted(s) == s # 0

\* line 150: return (stat == 0)
WriteDeviceResult(s) == s = 0

\* mutant: <= instead of <
WaitCondInclusive(t, s) == Less32(Sub32(t, s), MAX_EEPROM_WAIT_MS + 1)

\* mutant: the comparison is inverted
WaitCondInverted(t, s) == ~Less32(Sub32(t, s), MAX_EEPROM_WAIT_MS)

\* mutant: the loop is while (!isReady()), with no timeout
WaitCondNoTimeout(t, s) == TRUE

\* mutant: millis() < start + MAX_EEPROM_WAIT_MS, an absolute comparison
WaitCondAbsolute(t, s) ==
    LET e == Add32(s, MAX_EEPROM_WAIT_MS)
    IN  t.hi < e.hi \/ (t.hi = e.hi /\ t.lo < e.lo)

\* line 94: millis() - start < MAX_EEPROM_WAIT_MS
WaitCond(t, s) == Less32(Sub32(t, s), MAX_EEPROM_WAIT_MS)

\* mutant: the timeout is reported
WaitReturnReady(r) == r

\* line 97: the value returned once the wait loop has ended
WaitReturn(r) == TRUE

----------------------------------------------------------------------------
(* readStatus, convert, readDevice, isReady *)

\* lines 106-116: bytes requested from the device
ReadLen(m) == IF m = "MAX4706" THEN 4 ELSE 6

\* line 137: buf[ii] = (uint8_t) wire.read(); read() is -1 when no data
readDevice(frame) == [i \in 1..Len(frame) |-> U8(frame[i])]

\* MAX47x6Status8 laid over 4 bytes
Status8(b) ==
    [volatileConfig |-> b[1], volatileValue |-> b[2],
     nonVolatileConfig |-> b[3], nonVolatileValue |-> b[4]]

\* MAX47x6Status (packed) laid over 6 bytes; uint16_t is little-endian
Status6(b) ==
    [volatileConfig |-> b[1], volatileValue |-> b[2] + 256 * b[3],
     nonVolatileConfig |-> b[4], nonVolatileValue |-> b[5] + 256 * b[6]]

\* mutant: the value byte is widened as a signed char
WidenSigned(v) == IF v % 256 >= 128 THEN (v % 256) + 65280 ELSE v % 256

\* uint8_t -> uint16_t
Widen(v) == (v % 256) % W16

convert(from) ==
    [volatileConfig |-> from.volatileConfig,
     volatileValue |-> Widen(from.volatileValue),
     nonVolatileConfig |-> from.nonVolatileConfig,
     nonVolatileValue |-> Widen(from.nonVolatileValue)]

readStatus(m, frame) ==
    IF m = "MAX4706"
    THEN convert(Status8(readDevice(frame)))
    ELSE Status6(readDevice(frame))

\* line 309: the int bit-field converted to bool
isReady(m, frame) == CfgReady(readStatus(m, frame).volatileConfig) # 0

\* lines 38-40: the comparison of updateEepromIfChanged (operands promoted to int)
Changed(st, vref, gain, value) ==
    \/ CfgVref(st.nonVolatileConfig) # vref
    \/ CfgGain(st.nonVolatileConfig) # gain
    \/ st.nonVolatileValue # value

----------------------------------------------------------------------------
(* Inputs explored *)

\* addr argument of the constructor
AddrArgs == {3, 96}

Zero32 == [hi |-> 0, lo |-> 0]

\* millis() at the start of a call: 0 and 2^32 - 50
StartTimes == {Zero32, [hi |-> W16 - 1, lo |-> W16 - 50]}

\* milliseconds one bus transaction may take
Ticks == {0, 50, 99}

\* wire.endTransmission: 0 success, 2 address NACK, 3 data NACK
Stats == {0, 2, 3}

\* arguments of the calls: vref VREF_VDD and VREF_VREF_BUFFERED
VrefArgs == {0, 3}
GainArgs == {0, 1}
ValueArgs == {21, 512}

\* wire.read() returns -1 when the device delivered nothing
NoData(m) == [i \in 1..ReadLen(m) |-> -1]

\* frames the device may deliver: config bytes with the ready, vref and gain
\* fields set and clear, and the values 21 and 533 as Status8 / Status6 read
\* them
VolatileCfgBytes == {0, 1}
NonVolatileCfgBytes == {0, 24, 128}

DevFrames(m) ==
    IF m = "MAX4706"
    THEN {<<c0, 42, c1, v1>> :
            c0 \in VolatileCfgBytes, c1 \in NonVolatileCfgBytes, v1 \in {21}}
         \cup {NoData(m)}
    ELSE {<<c0, 42, 0, c1, b4, b5>> :
            c0 \in VolatileCfgBytes, c1 \in NonVolatileCfgBytes,
            b4 \in {21}, b5 \in {0, 2}}
         \cup {NoData(m)}

NoArgs == [vref |-> 0, gain |-> 0, value |-> 0, saveToEeprom |-> FALSE]
NoStatus ==
    [volatileConfig |-> 0, volatileValue |-> 0,
     nonVolatileConfig |-> 0, nonVolatileValue |-> 0]

ReadTx(m, a) == [kind |-> "read", addr |-> a, len |-> ReadLen(m), data |-> <<>>]
WriteTx(a, b) == [kind |-> "write", addr |-> a, len |-> BufLen, data |-> b]

Reads(b) == {i \in 1..Len(b) : b[i].kind = "read"}
Writes(b) == {i \in 1..Len(b) : b[i].kind = "write"}

\* the clock may stand still during a read only MaxZeroTickPolls times a call
TickOk(t) == t = 0 => Cardinality(Reads(bus)) < MaxZeroTickPolls

----------------------------------------------------------------------------
(* Constructor, lines 11-16: member addr is initialised from the parameter; *)
(* the later addr |= 0x60 names the parameter, which hides the member.      *)

Constructor(addrArg) == addrArg

Init ==
    /\ model \in Models
    /\ \E a \in AddrArgs : addr = Constructor(a)
    /\ now \in StartTimes
    /\ op = "none"
    /\ pc = "idle"
    /\ args = NoArgs
    /\ buf = <<0, 0, 0>>
    /\ stat = -1
    /\ entry = Zero32
    /\ start = Zero32
    /\ elapsed = 0
    /\ ready = FALSE
    /\ raw = <<>>
    /\ status = NoStatus
    /\ ret = FALSE
    /\ bus = <<>>

----------------------------------------------------------------------------
(* updateSettings *)

\* lines 48-86: entry and the frame built in buf
UpdateSettingsCall(vref, gain, value, saveToEeprom) ==
    /\ pc = "idle"
    /\ op' = "updateSettings"
    /\ args' = [vref |-> vref, gain |-> gain, value |-> value,
                saveToEeprom |-> saveToEeprom]
    /\ buf' = Frame(model, vref, gain, value, saveToEeprom)
    /\ entry' = now
    /\ pc' = "write"
    /\ UNCHANGED <<model, addr, now, stat, start, elapsed, ready, raw, status,
                   ret, bus>>

\* lines 88-93 and 141-151: writeDevice(buf, sizeof(buf)); on failure return
\* false, otherwise start = millis()
WriteDevice ==
    /\ pc = "write"
    /\ \E s \in Stats, t \in Ticks :
        /\ stat' = s
        /\ now' = Add32(now, t)
        /\ bus' = Append(bus, WriteTx(addr, buf))
        /\ IF WriteDeviceResult(s)
           THEN /\ pc' = "wait"
                /\ start' = now'
                /\ ret' = ret
           ELSE /\ pc' = "done"
                /\ start' = start
                /\ ret' = FALSE
    /\ elapsed' = 0
    /\ UNCHANGED <<model, addr, op, args, buf, entry, ready, raw, status>>

\* line 94, condition true: isReady() issues one status read; the loop ends
\* and true is returned when it reports ready
WaitRead ==
    /\ pc = "wait"
    /\ WaitCond(now, start)
    /\ \E f \in DevFrames(model), t \in Ticks :
        /\ TickOk(t)
        /\ now' = Add32(now, t)
        /\ elapsed' = elapsed + t
        /\ bus' = Append(bus, ReadTx(model, addr))
        /\ ready' = isReady(model, f)
        /\ IF ready'
           THEN pc' = "done" /\ ret' = WaitReturn(ready')
           ELSE pc' = "wait" /\ ret' = ret
    /\ UNCHANGED <<model, addr, op, args, buf, stat, entry, start, raw, status>>

\* line 94, millis() - start >= MAX_EEPROM_WAIT_MS: the loop ends, line 97
WaitTimeout ==
    /\ pc = "wait"
    /\ ~WaitCond(now, start)
    /\ pc' = "done"
    /\ ret' = WaitReturn(ready)
    /\ UNCHANGED <<model, addr, now, op, args, buf, stat, entry, start,
                   elapsed, ready, raw, status, bus>>

----------------------------------------------------------------------------
(* updateEepromIfChanged, lines 36-45: readStatus(), the comparison, and    *)
(* either return true or the call updateSettings(vref, gain, value, true)   *)

UpdateEepromIfChangedCall(vref, gain, value) ==
    /\ pc = "idle"
    /\ op' = "updateEepromIfChanged"
    /\ \E f \in DevFrames(model), t \in Ticks :
        /\ TickOk(t)
        /\ now' = Add32(now, t)
        /\ bus' = Append(bus, ReadTx(model, addr))
        /\ raw' = f
        /\ status' = readStatus(model, f)
        /\ IF Changed(status', vref, gain, value)
           THEN /\ args' = [vref |-> vref, gain |-> gain, value |-> value,
                            saveToEeprom |-> TRUE]
                /\ buf' = Frame(model, vref, gain, value, TRUE)
                /\ entry' = now'
                /\ pc' = "write"
                /\ ret' = ret
           ELSE /\ args' = [vref |-> vref, gain |-> gain, value |-> value,
                            saveToEeprom |-> FALSE]
                /\ buf' = buf
                /\ entry' = entry
                /\ pc' = "done"
                /\ ret' = TRUE
    /\ UNCHANGED <<model, addr, stat, start, elapsed, ready>>

----------------------------------------------------------------------------
(* readStatus, isReady and updateValue as calls of the application *)

ReadStatusCall(frames) ==
    /\ pc = "idle"
    /\ op' = "readStatus"
    /\ \E f \in frames, t \in Ticks :
        /\ TickOk(t)
        /\ now' = Add32(now, t)
        /\ bus' = Append(bus, ReadTx(model, addr))
        /\ raw' = f
        /\ status' = readStatus(model, f)
    /\ pc' = "done"
    /\ ret' = TRUE
    /\ UNCHANGED <<model, addr, args, buf, stat, entry, start, elapsed, ready>>

IsReadyCall ==
    /\ pc = "idle"
    /\ op' = "isReady"
    /\ \E f \in DevFrames(model), t \in Ticks :
        /\ TickOk(t)
        /\ now' = Add32(now, t)
        /\ bus' = Append(bus, ReadTx(model, addr))
        /\ raw' = f
        /\ ready' = isReady(model, f)
    /\ pc' = "done"
    /\ ret' = ready'
    /\ UNCHANGED <<model, addr, args, buf, stat, entry, start, elapsed, status>>

\* lines 30-32: returns true, nothing else
UpdateValueCall(value) ==
    /\ pc = "idle"
    /\ op' = "updateValue"
    /\ args' = [vref |-> 0, gain |-> 0, value |-> value, saveToEeprom |-> FALSE]
    /\ pc' = "done"
    /\ ret' = TRUE
    /\ UNCHANGED <<model, addr, now, buf, stat, entry, start, elapsed, ready,
                   raw, status, bus>>

\* the call is over; the next one starts at any time
Return ==
    /\ pc = "done"
    /\ op' = "none"
    /\ pc' = "idle"
    /\ now' \in StartTimes
    /\ args' = NoArgs
    /\ buf' = <<0, 0, 0>>
    /\ stat' = -1
    /\ entry' = Zero32
    /\ start' = Zero32
    /\ elapsed' = 0
    /\ ready' = FALSE
    /\ raw' = <<>>
    /\ status' = NoStatus
    /\ ret' = FALSE
    /\ bus' = <<>>
    /\ UNCHANGED <<model, addr>>

Next ==
    \/ \E v \in VrefArgs, g \in GainArgs, x \in ValueArgs, s \in BOOLEAN :
          UpdateSettingsCall(v, g, x, s)
    \/ WriteDevice
    \/ WaitRead
    \/ WaitTimeout
    \/ \E v \in VrefArgs, g \in GainArgs, x \in ValueArgs :
          UpdateEepromIfChangedCall(v, g, x)
    \/ ReadStatusCall(DevFrames(model))
    \/ IsReadyCall
    \/ \E x \in ValueArgs : UpdateValueCall(x)
    \/ Return

Spec == Init /\ [][Next]_vars

\* the calling thread keeps running: a transaction that was started returns
\* and the loop condition is evaluated again
FairSpec ==
    /\ Spec
    /\ WF_vars(WriteDevice)
    /\ WF_vars(WaitRead)
    /\ WF_vars(WaitTimeout)

----------------------------------------------------------------------------
(* The frame encoder alone: updateSettings up to the call of writeDevice,  *)
(* for every vref, several gains and every value below ValueSpan * 2^width *)

EncVrefs == 0..3
EncGains == {0, 1, 2, 255}
EncValues(m) == 0..(ValueSpan * Pow2(Width(m)) - 1)

InitEnc == Init /\ addr = 96 /\ now = Zero32

NextEnc ==
    /\ pc = "idle"
    /\ \E v \in EncVrefs, g \in EncGains, x \in EncValues(model), s \in BOOLEAN :
          UpdateSettingsCall(v, g, x, s)

EncSpec == InitEnc /\ [][NextEnc]_vars

----------------------------------------------------------------------------
(* The status decoder alone: readStatus() over frames of many byte values  *)

DecCfgBytes == {0, 1, 3, 128, 255}
DecValueBytes == {0, 21, 42, 128, 255}

WideFrames(m) ==
    IF m = "MAX4706"
    THEN {<<c0, v0, c1, v1>> :
            c0 \in DecCfgBytes, v0 \in DecValueBytes,
            c1 \in DecCfgBytes, v1 \in DecValueBytes}
         \cup {NoData(m)}
    ELSE {<<c0, b1, b2, c1, b4, b5>> :
            c0 \in DecCfgBytes, b1 \in DecValueBytes, b2 \in DecValueBytes,
            c1 \in DecCfgBytes, b4 \in DecValueBytes, b5 \in DecValueBytes}
         \cup {NoData(m)}

InitDec == Init /\ addr = 96 /\ now = Zero32

NextDec ==
    \/ ReadStatusCall(WideFrames(model))
    \/ Return

DecSpec == InitDec /\ [][NextDec]_vars

----------------------------------------------------------------------------
(* Notions shared by the properties *)

NumReads == Cardinality(Reads(bus))
NumWrites == Cardinality(Writes(bus))

\* a transaction is issued by the step
Issued(k) == Len(bus') = Len(bus) + 1 /\ bus'[Len(bus')].kind = k

\* the elapsed time the wait loop compares, below 100 ms
Within100(t, s) == Less32(Sub32(t, s), 100)

----------------------------------------------------------------------------
(* C1: bits 7-5 of byte 0 of every frame handed to the transport are the   *)
(* command selector, 0b010 when saveToEeprom is false and 0b011 when it is *)
(* true.  (Stated as claimed; the code loses the selector at line 59.)     *)
C1_CommandSelector ==
    \A i \in Writes(bus) :
        Bits(bus[i].data[1], 5, 3) = (IF args.saveToEeprom THEN 3 ELSE 2)

(* C2: for vref in 0..3, bits 4-3 of byte 0 are vref and bit 0 is the gain *)
(* bit, 1 exactly when the gain argument is nonzero, so every nonzero gain *)
(* gives the byte 0 of gain = 1; bits 2-1 of byte 0 are 0.                 *)
C2_VrefGainBits ==
    (pc = "write" /\ args.vref \in 0..3) =>
        /\ Bits(buf[1], 3, 2) = args.vref
        /\ Bits(buf[1], 0, 1) = (IF args.gain # 0 THEN 1 ELSE 0)
        /\ Bits(buf[1], 1, 2) = 0
        /\ args.gain # 0 =>
              buf[1] = Frame(model, args.vref, 1, args.value,
                             args.saveToEeprom)[1]

C2_Witness ==
    /\ pc = "write"
    /\ args.vref = 3
    /\ args.gain = 255
    /\ buf[1] = 25

(* C2 as claimed: the gain bit is bit 2 and the two low bits of byte 0 are 0 *)
C2_GainIsBit2 ==
    (pc = "write" /\ args.vref \in 0..3) =>
        /\ Bits(buf[1], 3, 2) = args.vref
        /\ Bits(buf[1], 2, 1) = (IF args.gain # 0 THEN 1 ELSE 0)
        /\ Bits(buf[1], 0, 2) = 0

(* C3: updateEepromIfChanged reads the status once first; when the         *)
(* non-volatile vref, gain and value that read reports equal the requested *)
(* ones it returns true with no write, otherwise it issues exactly one     *)
(* write.  (Stated as claimed; the command selector of that write is the   *)
(* subject of C1.)                                                         *)
C3_WriteOnlyIfChanged ==
    (/\ op = "updateEepromIfChanged"
     /\ pc = "done"
     /\ args.vref \in 0..3
     /\ args.gain \in {0, 1}
     /\ args.value < Pow2(Width(model))) =>
        /\ bus[1].kind = "read"
        /\ IF /\ Bits(status.nonVolatileConfig, 3, 2) = args.vref
              /\ Bits(status.nonVolatileConfig, 7, 1) = args.gain
              /\ status.nonVolatileValue = args.value
           THEN ret /\ NumWrites = 0
           ELSE NumWrites = 1

(* C4: updateSettings returns true exactly when the write transaction      *)
(* completed with status 0, also when the wait ended by the timeout with   *)
(* no status read reporting ready.                                         *)
C4_ReturnIsWriteStatus ==
    (pc = "done" /\ stat # -1) => (ret <=> stat = 0)

C4_Witness ==
    /\ op = "updateSettings"
    /\ pc = "done"
    /\ args.saveToEeprom
    /\ stat = 0
    /\ NumReads >= 2
    /\ ~ready
    /\ ~Within100(now, start)
    /\ ret

(* C5: once the write transaction has completed with a non-zero status the *)
(* call is over with result false, after exactly one write transaction and *)
(* with no status read after it; the result is also the one of             *)
(* updateEepromIfChanged.                                                  *)
C5_WriteFailureReturnsFalse ==
    (stat # -1 /\ stat # 0) =>
        /\ pc = "done"
        /\ ~ret
        /\ NumWrites = 1
        /\ bus[Len(bus)].kind = "write"

C5_Witness ==
    /\ op = "updateEepromIfChanged"
    /\ pc = "done"
    /\ stat = 2
    /\ ~ret
    /\ Len(bus) = 2

(* C6: in the wait loop a status read is issued only while less than       *)
(* 100 ms have elapsed since start, the clock value taken when the write   *)
(* transaction had returned; a read that reports ready ends the call, one  *)
(* that does not leaves it waiting; the loop ends only on ready or by the  *)
(* timeout; no transaction follows the end of the call.                    *)
C6_WaitStops ==
    [][/\ (pc = "wait" /\ Issued("read")) => Within100(now, start)
       /\ (pc = "wait" /\ Issued("read")) => (pc' = "done" <=> ready')
       /\ (pc = "wait" /\ ~Issued("read")) =>
             (pc' = "done" /\ ~Within100(now, start))
       /\ pc = "done" => bus' = <<>>]_vars

C6_Witness ==
    /\ op = "updateSettings"
    /\ pc = "done"
    /\ args.saveToEeprom
    /\ NumReads >= 2
    /\ ready
    /\ Within100(now, start)

(* C6 as claimed: no status read is started once 100 ms have elapsed since *)
(* the entry of updateSettings (the write call)                            *)
C6_MeasuredFromCall ==
    [][(pc = "wait" /\ Issued("read")) => Within100(now, entry)]_vars

(* C7: a call of updateSettings with saveToEeprom = false issues exactly   *)
(* one write transaction and then waits like a persisting one: it returns  *)
(* true only after a status read reported ready or once 100 ms elapsed     *)
(* since start, and every status read it issued follows the write.         *)
C7_VolatileWriteWaitsToo ==
    (op = "updateSettings" /\ ~args.saveToEeprom /\ pc = "done") =>
        /\ NumWrites = 1
        /\ bus[1].kind = "write"
        /\ ret => ((NumReads >= 1 /\ ready) \/ ~Within100(now, start))

C7_Witness ==
    /\ op = "updateSettings"
    /\ ~args.saveToEeprom
    /\ pc = "done"
    /\ ret
    /\ NumReads >= 1
    /\ ready

(* C7 as claimed: with saveToEeprom = false, one write and no status read  *)
C7_NoReadsWhenVolatile ==
    (op = "updateSettings" /\ ~args.saveToEeprom /\ pc = "done") =>
        (NumWrites = 1 /\ NumReads = 0)

(* C8: for a value within the model's range the value bits of the frame    *)
(* reproduce it: 8 bit byte1 = value; 10 bit byte1*4 + (byte2 >> 6) =      *)
(* value, low 6 bits of byte 2 zero; 12 bit byte1*16 + (byte2 >> 4) =      *)
(* value, low 4 bits of byte 2 zero.                                       *)
C8_ValueBitsExact ==
    (pc = "write" /\ args.value < Pow2(Width(model))) =>
        CASE model = "MAX4706" -> buf[2] = args.value
          [] model = "MAX4716" ->
                /\ buf[2] * 4 + Shr(buf[3], 6) = args.value
                /\ Bits(buf[3], 0, 6) = 0
          [] model = "MAX4726" ->
                /\ buf[2] * 16 + Shr(buf[3], 4) = args.value
                /\ Bits(buf[3], 0, 4) = 0

C8_Witness ==
    /\ pc = "write"
    /\ model = "MAX4716"
    /\ args.value = 513
    /\ buf[2] = 128
    /\ buf[3] = 64

(* C9: for 0 <= k < 2^width the frame for value 2^width + k is byte for    *)
(* byte the frame for value k with the same vref, gain and saveToEeprom.   *)
C9_Truncation ==
    (/\ pc = "write"
     /\ args.value >= Pow2(Width(model))
     /\ args.value < 2 * Pow2(Width(model))) =>
        buf = Frame(model, args.vref, args.gain,
                    args.value - Pow2(Width(model)), args.saveToEeprom)

C9_Witness ==
    /\ pc = "write"
    /\ model = "MAX4726"
    /\ args.value = 4096 + 4095
    /\ buf[2] = 255
    /\ buf[3] = 240

(* C10: on the MAX4706 readStatus requests 4 bytes [c0, v0, c1, v1] and    *)
(* returns volatileConfig = c0, nonVolatileConfig = c1, volatileValue = v0 *)
(* and nonVolatileValue = v1, both in 0..255.                              *)
C10_Status8 ==
    (/\ op = "readStatus"
     /\ pc = "done"
     /\ model = "MAX4706"
     /\ \A i \in 1..Len(raw) : raw[i] \in 0..255) =>
        /\ bus = <<ReadTx(model, addr)>>
        /\ bus[1].len = 4
        /\ Len(raw) = 4
        /\ status.volatileConfig = raw[1]
        /\ status.volatileValue = raw[2]
        /\ status.nonVolatileConfig = raw[3]
        /\ status.nonVolatileValue = raw[4]
        /\ status.volatileValue \in 0..255
        /\ status.nonVolatileValue \in 0..255

C10_Witness ==
    /\ op = "readStatus"
    /\ pc = "done"
    /\ model = "MAX4706"
    /\ raw = <<1, 42, 3, 21>>
    /\ status.volatileValue = 42
    /\ status.nonVolatileValue = 21
    /\ status.volatileConfig = 1
    /\ status.nonVolatileConfig = 3

(* C11: an address 0..7 given to the constructor is stored with 0x60 added *)
(* and every transaction is addressed to it; an address of 8 or more is    *)
(* stored unchanged.  (Stated as claimed; the constructor changes its      *)
(* parameter, not the member.)                                             *)
C11_AddressBase ==
    bus # <<>> =>
        /\ addr \in {IF a < 8 THEN a + 96 ELSE a : a \in AddrArgs}
        /\ \A i \in 1..Len(bus) : bus[i].addr = addr

(* C12: updateValue(value) issues a write transaction carrying value and   *)
(* returns true only after it was sent.  (Stated as claimed; the method    *)
(* only returns true.)                                                     *)
C12_UpdateValueWrites ==
    (op = "updateValue" /\ pc = "done" /\ ret) =>
        /\ NumWrites = 1
        /\ \A i \in Writes(bus) :
              <<bus[i].data[2], bus[i].data[3]>> = ValueBytes(model, args.value)

(* C13: whatever the start time, also when the clock wraps to 0 during the *)
(* wait, a status read is issued only while less than 100 ms have really   *)
(* passed since start, and the loop ends without a read only once 100 ms   *)
(* or more have passed.                                                    *)
C13_WrapSafeTimeout ==
    [][/\ (pc = "wait" /\ Issued("read")) => elapsed < 100
       /\ (pc = "wait" /\ pc' = "done" /\ ~Issued("read")) => elapsed >= 100
      ]_vars

C13_Witness ==
    /\ pc = "wait"
    /\ start = [hi |-> W16 - 1, lo |-> W16 - 50]
    /\ now = [hi |-> 0, lo |-> 49]
    /\ elapsed = 99
    /\ NumReads >= 1

\* every byte of the frame kept in raw was delivered by the device
RawDelivered == \A i \in 1..Len(raw) : raw[i] \in 0..255

(* C14: on the MAX4716 and MAX4726 readStatus requests 6 bytes             *)
(* [c0, h0, l0, c1, h1, l1] and returns volatileConfig = c0, volatileValue *)
(* = h0*256 + l0, nonVolatileConfig = c1, nonVolatileValue = h1*256 + l1.  *)
(* (Stated as claimed; the code reads the values little-endian.)           *)
C14_Status6BigEndian ==
    (op = "readStatus" /\ pc = "done" /\ model # "MAX4706" /\ RawDelivered) =>
        /\ bus[1].len = 6
        /\ Len(raw) = 6
        /\ status.volatileConfig = raw[1]
        /\ status.volatileValue = raw[2] * 256 + raw[3]
        /\ status.nonVolatileConfig = raw[4]
        /\ status.nonVolatileValue = raw[5] * 256 + raw[6]

(* C15: isReady returns true exactly when bit 7 of the first status byte   *)
(* is 1, and updateEepromIfChanged compares the requested vref and gain    *)
(* with bits 4-3 and bit 0 of the non-volatile config byte read as         *)
(* unsigned numbers.  (Stated as claimed; the bit-fields are allocated     *)
(* from bit 0 and are signed.)                                             *)
C15_ConfigLayout ==
    /\ (op = "isReady" /\ pc = "done" /\ RawDelivered) =>
          (ret <=> Bits(raw[1], 7, 1) = 1)
    /\ (op = "updateEepromIfChanged" /\ pc # "idle" /\ RawDelivered) =>
          ((NumWrites = 0 /\ pc = "done") <=>
              /\ Bits(status.nonVolatileConfig, 3, 2) = args.vref
              /\ Bits(status.nonVolatileConfig, 0, 1) = args.gain
              /\ status.nonVolatileValue = args.value)

(* C16: in a call of updateSettings the bus is used write first, then      *)
(* reads: nothing is on the bus before the write, there is exactly one     *)
(* write once it was sent, every status read of the call follows it and    *)
(* is issued only after it completed with status 0, and true is returned   *)
(* only from the wait, after ready was observed or the timeout reached.    *)
C16_WriteThenRead ==
    LET first == IF op = "updateEepromIfChanged" THEN 2 ELSE 1
    IN  op \in {"updateSettings", "updateEepromIfChanged"} =>
          /\ pc = "write" => (NumWrites = 0 /\ Len(bus) = first - 1)
          /\ pc = "wait" => stat = 0
          /\ (pc = "wait" \/ (pc = "done" /\ stat # -1)) =>
                (Writes(bus) = {first} /\ \A j \in Reads(bus) \ {1} : j > first)
          /\ Len(bus) > first => stat = 0
          /\ (pc = "done" /\ ret /\ stat # -1) =>
                (stat = 0 /\ (ready \/ ~Within100(now, start)))

C16_Witness ==
    /\ op = "updateSettings"
    /\ pc = "done"
    /\ ret
    /\ Len(bus) = 3
    /\ bus[1].kind = "write"
    /\ bus[2].kind = "read"
    /\ bus[3].kind = "read"
    /\ ready

\* the longest a bus transaction takes
MaxTick == CHOOSE t \in Ticks : \A u \in Ticks : u <= t

(* C17: every call of updateSettings, also through updateEepromIfChanged,  *)
(* returns: the wait never lasts 100 ms plus the time of one status read,  *)
(* it is left only into the return with ready observed or the timeout      *)
(* reached, and a call that was entered eventually is over.                *)
C17_Terminates ==
    /\ [](pc = "wait" => elapsed < 100 + MaxTick)
    /\ [][(pc = "wait" /\ pc' # "wait") =>
            (pc' = "done" /\ (ready' \/ ~Within100(now, start)))]_vars
    /\ (pc \in {"write", "wait"}) ~> (pc = "done")

C17_Witness ==
    /\ op = "updateEepromIfChanged"
    /\ pc = "done"
    /\ stat = 0
    /\ ret
    /\ ~ready
    /\ NumReads >= 3
    /\ elapsed >= 100

(* C18: the values of a status record returned by readStatus are at most   *)
(* 255 on the MAX4706; on the MAX4716 and MAX4726 the two bytes of each    *)
(* value are returned unmasked, so the values are at most 65535.           *)
C18_StatusValueRange ==
    (op = "readStatus" /\ pc = "done") =>
        LET max == IF model = "MAX4706" THEN 255 ELSE 65535
        IN  /\ status.volatileValue \in 0..max
            /\ status.nonVolatileValue \in 0..max

C18_Witness ==
    /\ op = "readStatus"
    /\ pc = "done"
    /\ model = "MAX4716"
    /\ raw = <<1, 255, 255, 1, 0, 128>>
    /\ status.volatileValue = 65535
    /\ status.nonVolatileValue = 32768

(* C18 as claimed: the values are at most the model's maximum, 255, 1023   *)
(* or 4095                                                                 *)
C18_WithinModelMax ==
    (op = "readStatus" /\ pc = "done") =>
        /\ status.volatileValue <= Pow2(Width(model)) - 1
        /\ status.nonVolatileValue <= Pow2(Width(model)) - 1

(* C19: every write transaction of every model hands 3 bytes to the        *)
(* transport; on the MAX4706 they are the command byte, the value byte and *)
(* a third byte 0.                                                         *)
C19_FrameLength ==
    \A i \in Writes(bus) :
        /\ bus[i].len = 3
        /\ Len(bus[i].data) = 3
        /\ model = "MAX4706" =>
              (bus[i].data[2] = args.value % 256 /\ bus[i].data[3] = 0)

C19_Witness ==
    /\ op = "updateSettings"
    /\ model = "MAX4706"
    /\ pc = "done"
    /\ args.value = 21
    /\ bus[1].kind = "write"
    /\ bus[1].len = 3
    /\ bus[1].data = <<0, 21, 0>>

(* C19 as claimed: 2 bytes on the MAX4706, 3 bytes on the other models     *)
C19_TwoOrThreeBytes ==
    \A i \in Writes(bus) :
        bus[i].len = (IF model = "MAX4706" THEN 2 ELSE 3)

(* C20: when a status read delivers no bytes readStatus returns a record   *)
(* of 0xFF bytes, isReady reports ready, and updateEepromIfChanged issues  *)
(* one write transaction, carrying the write-all-memory command.  (Stated  *)
(* as claimed; the command selector of that write is the subject of C1.)   *)
C20_FailedReadUndetected ==
    raw = NoData(model) =>
        /\ (op = "readStatus" /\ pc = "done") =>
              /\ status.volatileConfig = 255
              /\ status.nonVolatileConfig = 255
        /\ (op = "isReady" /\ pc = "done") => ret
        /\ op = "updateEepromIfChanged" =>
              /\ pc = "done" => NumWrites = 1
              /\ \A i \in Writes(bus) :
                    Bits(bus[i].data[1], 5, 3) = CMD_WRITE_ALL_MEMORY

====
